---- MODULE Spec2Model ----
(***************************************************************************)
(* A model of png_to_svg (src/png_to_svg.py): one conversion call is a     *)
(* straight-line pipeline over a shared filesystem, split into one atomic  *)
(* step per statement that touches the filesystem, the image library or    *)
(* the external tool.  Paths are sequences of one-character strings, so    *)
(* that os.path.splitext is computed, not assumed.                         *)
(***************************************************************************)
EXTENDS Integers, Sequences, FiniteSets

VARIABLES
    pc,               \* per call: the statement the call is about to execute
    input_file,       \* per call: argument input_file
    output_file,      \* per call: argument / local output_file (None or a path)
    output_arg,       \* history: output_file as the caller passed it
    keep_temp_files,  \* per call: argument keep_temp_files
    temp_dir,         \* per call: local temp_dir (NoDir before mkdtemp returns)
    img,              \* per call: mode of the local img ("none" before Image.open)
    exc,              \* per call: the exception in flight (NoExc when none)
    retval,           \* per call: the value of an executed `return` (None when none)
    result,           \* per call: what the caller got (NoResult while running)
    stdout,           \* per call: the messages printed, in order
    calls,            \* per call: the subprocess.run invocations, in order
    trace,            \* per call: the steps executed so far, in order
    files,            \* filesystem: regular files outside scratch, path -> content
    dirs,             \* filesystem: the scratch directories that exist
    bmp,              \* filesystem: state of <dir>/temp.bmp for each directory name
    owner,            \* history: the call whose mkdtemp created each directory
    tracing,          \* history: are trace, calls and stdout recorded in this behaviour
    potrace_installed \* environment: is the potrace executable on PATH

vars == <<pc, input_file, output_file, output_arg, keep_temp_files, temp_dir, img, exc,
          retval, result, stdout, calls, trace, files, dirs, bmp, owner,
          tracing, potrace_installed>>

----------------------------------------------------------------------------
(* Bounds *)

NumCalls == 2      \* concurrent calls in SpecConc
MaxLen == 5        \* longest path enumerated in SpecPath

Procs == 1..NumCalls

\* The names mkdtemp draws from.  At most NumCalls - 1 scratch directories
\* exist whenever a call reaches mkdtemp, so a free name is always left, as
\* it is in the far larger name space of tempfile.
DirNames == 1..NumCalls

----------------------------------------------------------------------------
(* Values *)

None == <<"None">>
NoDir == 0
NoExc == [type |-> "none", returncode |-> -1]
NoResult == [kind |-> "running", value |-> None, exc |-> NoExc]

Exc(t) == [type |-> t, returncode |-> -1]
CalledProcessError(rc) == [type |-> "CalledProcessError", returncode |-> rc]

Returned(v) == [kind |-> "return", value |-> v, exc |-> NoExc]
Raised(e) == [kind |-> "raise", value |-> None, exc |-> e]

\* exit statuses of the tool: success, failure
ExitCodes == {0, 1}

Alphabet == {"a", ".", "/", "s", "v", "g"}

RECURSIVE Strings(_)
Strings(n) == IF n = 0 THEN {<<>>}
              ELSE LET S == Strings(n - 1)
                   IN S \cup {Append(s, c) : s \in {t \in S : Len(t) = n - 1}, c \in Alphabet}

SVG == <<".", "s", "v", "g">>
ArtPng == <<"a", ".", "p">>
PicSvg == <<"a">> \o SVG
NoExt == <<"d", "/", "b">>
HiddenPng == <<".", "p">>
OutSvg == <<"o", "/", "r">> \o SVG

InputPaths == {ArtPng, PicSvg, NoExt, HiddenPng}
OutputArgs == {None, OutSvg}
Contents == {"absent", "L", "RGB", "corrupt"}

----------------------------------------------------------------------------
(* Library functions the call relies on *)

\* str.rfind, 1-based: the last index of c in p, 0 when absent
RFind(p, c) == LET I == {i \in 1..Len(p) : p[i] = c}
               IN IF I = {} THEN 0 ELSE CHOOSE i \in I : \A j \in I : j <= i

\* os.path.splitext (posixpath): <<root, ext>>; leading dots of the last
\* component are not an extension
splitext(p) ==
    LET sepIndex == RFind(p, "/")
        dotIndex == RFind(p, ".")
    IN IF dotIndex > sepIndex
          /\ \E k \in (sepIndex + 1)..(dotIndex - 1) : p[k] # "."
       THEN <<SubSeq(p, 1, dotIndex - 1), SubSeq(p, dotIndex, Len(p))>>
       ELSE <<p, <<>> >>

\* variant: ".svg" is appended without removing the extension
DefaultOutputNoSplit(input) == input \o SVG

\* line 69
DefaultOutput(input) == splitext(input)[1] \o SVG

\* variant: the existence test of line 64 always passes
ExistsAlways(path, fs) == TRUE

\* os.path.exists on a regular file
Exists(path, fs) == path \in DOMAIN fs

\* Image.open: the mode of the decoded image, or the exception it raises
OpenOutcome(path, fs) ==
    IF path \notin DOMAIN fs THEN [ok |-> FALSE, mode |-> "none", exc |-> Exc("FileNotFoundError")]
    ELSE IF fs[path] \in {"L", "RGB"} THEN [ok |-> TRUE, mode |-> fs[path], exc |-> NoExc]
    ELSE [ok |-> FALSE, mode |-> "none", exc |-> Exc("UnidentifiedImageError")]

\* variant: a fixed or guessable directory name, which may already exist
MkdtempAnyName(ds) == DirNames

\* tempfile.mkdtemp creates a directory that did not exist
MkdtempNames(ds) == DirNames \ ds

\* img.save(bmp_path): the state it leaves temp.bmp in; only "complete" returns
SaveOutcomes(d, ds) ==
    IF d \notin ds THEN {"absent"} ELSE {"complete", "partial", "absent"}

\* what the tool can exit with, given the bitmap it is told to read
ToolExitCodes(d, ds, b) ==
    IF d \in ds /\ b[d] = "complete" THEN ExitCodes ELSE ExitCodes \ {0}

\* variant: check=False, the exit status is ignored
CheckIgnored(rc) == FALSE

\* subprocess.run(..., check=True) raises on a non-zero exit status
CheckRaises(rc) == rc # 0

\* os.remove(bmp_path)
RemoveOutcomes(d, ds, b) ==
    IF d \in ds /\ b[d] # "absent" THEN {"ok", "fail"} ELSE {"fail"}

\* os.rmdir(temp_dir): the directory must exist and be empty
RmdirOutcomes(d, ds, b) ==
    IF d \in ds /\ b[d] = "absent" THEN {"ok", "fail"} ELSE {"fail"}

\* variant: the clean-up is never done
CleanupNever(keep) == FALSE

\* variant: keep_temp_files is ignored
CleanupAlways(keep) == TRUE

\* line 102
ShouldCleanup(keep) == ~keep

\* variant: no handler around the clean-up
CleanupPropagates(e) == FALSE

\* line 108: except Exception
CleanupCatches(e) == TRUE

----------------------------------------------------------------------------
(* Control flow of png_to_svg *)

\* variant: the tool is run before the bitmap is saved
ToolBeforeSave == "potrace"

\* lines 80-84: the bitmap is saved next, before the tool is run
AfterConvert == "save"

\* history: the step is recorded; neither history variable is ever written
\* by the program
Step(p, name) ==
    /\ trace' = IF tracing THEN [trace EXCEPT ![p] = Append(@, name)] ELSE trace
    /\ UNCHANGED <<tracing, output_arg>>

\* print: the message is appended to the output of the call (when recorded)
Emit(p, msg) ==
    stdout' = IF tracing THEN [stdout EXCEPT ![p] = Append(@, msg)] ELSE stdout

\* the call moves on to the statement labelled label
Goto(p, label) == pc' = [pc EXCEPT ![p] = label]

\* the finally block is left: the pending exception e, or else the pending
\* return value v, reaches the caller
Deliver(p, e, v) ==
    /\ result' = [result EXCEPT ![p] = IF e # NoExc THEN Raised(e) ELSE Returned(v)]
    /\ Goto(p, "done")

\* lines 64-65
Validate(p) ==
    /\ pc[p] = "validate"
    /\ Step(p, "validate")
    /\ IF Exists(input_file[p], files)
       THEN /\ Goto(p, "default_output")
            /\ UNCHANGED result
       ELSE /\ Goto(p, "done")
            /\ result' = [result EXCEPT ![p] = Raised(Exc("FileNotFoundError"))]
    /\ UNCHANGED <<input_file, output_file, keep_temp_files, temp_dir, img, exc,
                   retval, stdout, calls, files, dirs, bmp, owner, potrace_installed>>

\* lines 68-69
SetDefaultOutput(p) ==
    /\ pc[p] = "default_output"
    /\ Step(p, "default_output")
    /\ output_file' = [output_file EXCEPT
                         ![p] = IF @ = None THEN DefaultOutput(input_file[p]) ELSE @]
    /\ Goto(p, "mkdtemp")
    /\ UNCHANGED <<input_file, keep_temp_files, temp_dir, img, exc, retval, result,
                   stdout, calls, files, dirs, bmp, owner, potrace_installed>>

\* line 72, mkdtemp returns: a fresh, empty directory
MkdtempOk(p) ==
    /\ pc[p] = "mkdtemp"
    /\ \E d \in MkdtempNames(dirs) :
          /\ temp_dir' = [temp_dir EXCEPT ![p] = d]
          /\ dirs' = dirs \cup {d}
          /\ owner' = [owner EXCEPT ![d] = p]
    /\ Step(p, "mkdtemp")
    /\ Goto(p, "open")
    /\ UNCHANGED <<input_file, output_file, keep_temp_files, img, exc, retval, result,
                   stdout, calls, files, bmp, potrace_installed>>

\* line 72, mkdtemp raises (no writable temp location); the call is not yet
\* inside the try statement, so nothing is printed and nothing is cleaned
MkdtempFail(p) ==
    /\ pc[p] = "mkdtemp"
    /\ Step(p, "mkdtemp_failed")
    /\ Goto(p, "done")
    /\ result' = [result EXCEPT ![p] = Raised(Exc("OSError"))]
    /\ UNCHANGED <<input_file, output_file, keep_temp_files, temp_dir, img, exc,
                   retval, stdout, calls, files, dirs, bmp, owner, potrace_installed>>

\* line 76
ImageOpen(p) ==
    /\ pc[p] = "open"
    /\ Step(p, "open")
    /\ LET o == OpenOutcome(input_file[p], files)
       IN IF o.ok
          THEN /\ img' = [img EXCEPT ![p] = o.mode]
               /\ Goto(p, "convert")
               /\ UNCHANGED exc
          ELSE /\ exc' = [exc EXCEPT ![p] = o.exc]
               /\ Goto(p, "except")
               /\ UNCHANGED img
    /\ UNCHANGED <<input_file, output_file, keep_temp_files, temp_dir, retval, result,
                   stdout, calls, files, dirs, bmp, owner, potrace_installed>>

\* lines 79-80
Convert(p) ==
    /\ pc[p] = "convert"
    /\ Step(p, "convert")
    /\ img' = [img EXCEPT ![p] = IF @ # "L" THEN "L" ELSE @]
    /\ Goto(p, AfterConvert)
    /\ UNCHANGED <<input_file, output_file, keep_temp_files, temp_dir, exc, retval,
                   result, stdout, calls, files, dirs, bmp, owner, potrace_installed>>

\* lines 83-84: img.save(os.path.join(temp_dir, 'temp.bmp'))
Save(p) ==
    /\ pc[p] = "save"
    /\ Step(p, "save")
    /\ \E o \in SaveOutcomes(temp_dir[p], dirs) :
          /\ bmp' = IF temp_dir[p] \in dirs THEN [bmp EXCEPT ![temp_dir[p]] = o] ELSE bmp
          /\ IF o = "complete"
             THEN /\ Goto(p, "potrace")
                  /\ UNCHANGED exc
             ELSE /\ exc' = [exc EXCEPT ![p] = Exc("OSError")]
                  /\ Goto(p, "except")
    /\ UNCHANGED <<input_file, output_file, keep_temp_files, temp_dir, img, retval,
                   result, stdout, calls, files, dirs, owner, potrace_installed>>

\* lines 87-91, the executable is not found: Popen raises FileNotFoundError
PotraceMissing(p) ==
    /\ pc[p] = "potrace"
    /\ ~potrace_installed
    /\ Step(p, "potrace")
    /\ exc' = [exc EXCEPT ![p] = Exc("FileNotFoundError")]
    /\ Goto(p, "except")
    /\ UNCHANGED <<input_file, output_file, keep_temp_files, temp_dir, img, retval,
                   result, stdout, calls, files, dirs, bmp, owner, potrace_installed>>

\* lines 87-91, the tool runs to its exit: potrace --svg --output output_file bmp_path
PotraceRun(p) ==
    /\ pc[p] = "potrace"
    /\ potrace_installed
    /\ Step(p, "potrace")
    /\ \E rc \in ToolExitCodes(temp_dir[p], dirs, bmp) :
          /\ calls' = IF tracing
                      THEN [calls EXCEPT ![p] =
                              Append(@, [output |-> output_file[p], input |-> temp_dir[p],
                                         read |-> bmp[temp_dir[p]], returncode |-> rc])]
                      ELSE calls
          /\ \E written \in IF rc = 0 THEN {TRUE} ELSE BOOLEAN :
                files' = IF written
                         THEN [f \in DOMAIN files \cup {output_file[p]} |->
                                 IF f = output_file[p]
                                 THEN (IF rc = 0 THEN "svg" ELSE "corrupt")
                                 ELSE files[f]]
                         ELSE files
          /\ IF CheckRaises(rc)
             THEN /\ exc' = [exc EXCEPT ![p] = CalledProcessError(rc)]
                  /\ Goto(p, "except")
             ELSE /\ Goto(p, "print_success")
                  /\ UNCHANGED exc
    /\ UNCHANGED <<input_file, output_file, keep_temp_files, temp_dir, img, retval,
                   result, stdout, dirs, bmp, owner, potrace_installed>>

\* line 93
PrintSuccess(p) ==
    /\ pc[p] = "print_success"
    /\ Step(p, "print_success")
    /\ Emit(p, "Successfully converted")
    /\ Goto(p, "return")
    /\ UNCHANGED <<input_file, output_file, keep_temp_files, temp_dir, img, exc, retval,
                   result, calls, files, dirs, bmp, owner, potrace_installed>>

\* line 94
Return(p) ==
    /\ pc[p] = "return"
    /\ Step(p, "return")
    /\ retval' = [retval EXCEPT ![p] = output_file[p]]
    /\ Goto(p, "finally")
    /\ UNCHANGED <<input_file, output_file, keep_temp_files, temp_dir, img, exc, result,
                   stdout, calls, files, dirs, bmp, owner, potrace_installed>>

\* lines 96-98: print, then re-raise through the finally block
Except(p) ==
    /\ pc[p] = "except"
    /\ Step(p, "except")
    /\ Emit(p, "Error during conversion")
    /\ Goto(p, "finally")
    /\ UNCHANGED <<input_file, output_file, keep_temp_files, temp_dir, img, exc, retval,
                   result, calls, files, dirs, bmp, owner, potrace_installed>>

\* lines 100-102
Finally(p) ==
    /\ pc[p] = "finally"
    /\ Step(p, "finally")
    /\ IF ShouldCleanup(keep_temp_files[p])
       THEN /\ Goto(p, "exists")
            /\ UNCHANGED result
       ELSE Deliver(p, exc[p], retval[p])
    /\ UNCHANGED <<input_file, output_file, keep_temp_files, temp_dir, img, exc, retval,
                   stdout, calls, files, dirs, bmp, owner, potrace_installed>>

\* lines 104-105
CleanupExists(p) ==
    /\ pc[p] = "exists"
    /\ Step(p, "exists")
    /\ Goto(p, IF temp_dir[p] \in dirs /\ bmp[temp_dir[p]] # "absent"
               THEN "remove" ELSE "rmdir")
    /\ UNCHANGED <<input_file, output_file, keep_temp_files, temp_dir, img, exc, retval,
                   result, stdout, calls, files, dirs, bmp, owner, potrace_installed>>

\* line 106
Remove(p) ==
    /\ pc[p] = "remove"
    /\ Step(p, "remove")
    /\ \E o \in RemoveOutcomes(temp_dir[p], dirs, bmp) :
          IF o = "ok"
          THEN /\ bmp' = [bmp EXCEPT ![temp_dir[p]] = "absent"]
               /\ Goto(p, "rmdir")
          ELSE /\ Goto(p, "cleanup_except")
               /\ UNCHANGED bmp
    /\ UNCHANGED <<input_file, output_file, keep_temp_files, temp_dir, img, exc, retval,
                   result, stdout, calls, files, dirs, owner, potrace_installed>>

\* line 107
Rmdir(p) ==
    /\ pc[p] = "rmdir"
    /\ Step(p, "rmdir")
    /\ \E o \in RmdirOutcomes(temp_dir[p], dirs, bmp) :
          IF o = "ok"
          THEN /\ dirs' = dirs \ {temp_dir[p]}
               /\ owner' = [owner EXCEPT ![temp_dir[p]] = 0]
               /\ Deliver(p, exc[p], retval[p])
          ELSE /\ Goto(p, "cleanup_except")
               /\ UNCHANGED <<dirs, owner, result>>
    /\ UNCHANGED <<input_file, output_file, keep_temp_files, temp_dir, img, exc, retval,
                   stdout, calls, files, bmp, potrace_installed>>

\* lines 108-109: the error of os.remove / os.rmdir (an OSError such as
\* PermissionError) is caught and printed; an
\* exception leaving the finally block would replace the pending outcome
CleanupExcept(p) ==
    /\ pc[p] = "cleanup_except"
    /\ Step(p, "cleanup_except")
    /\ IF CleanupCatches(Exc("PermissionError"))
       THEN /\ Emit(p, "Warning: Could not clean up")
            /\ Deliver(p, exc[p], retval[p])
            /\ UNCHANGED <<exc, retval>>
       ELSE /\ exc' = [exc EXCEPT ![p] = Exc("PermissionError")]
            /\ retval' = [retval EXCEPT ![p] = None]
            /\ Deliver(p, Exc("PermissionError"), None)
            /\ UNCHANGED stdout
    /\ UNCHANGED <<input_file, output_file, keep_temp_files, temp_dir, img,
                   calls, files, dirs, bmp, owner, potrace_installed>>

png_to_svg(p) ==
    \/ Validate(p)
    \/ SetDefaultOutput(p)
    \/ MkdtempOk(p)
    \/ MkdtempFail(p)
    \/ ImageOpen(p)
    \/ Convert(p)
    \/ Save(p)
    \/ PotraceMissing(p)
    \/ PotraceRun(p)
    \/ PrintSuccess(p)
    \/ Return(p)
    \/ Except(p)
    \/ Finally(p)
    \/ CleanupExists(p)
    \/ Remove(p)
    \/ Rmdir(p)
    \/ CleanupExcept(p)

----------------------------------------------------------------------------
(* Specifications *)

\* the state every call starts from: arguments bound, nothing executed
Fresh(active, traced) ==
    /\ tracing = traced
    /\ pc = [p \in Procs |-> IF p \in active THEN "validate" ELSE "idle"]
    /\ temp_dir = [p \in Procs |-> NoDir]
    /\ img = [p \in Procs |-> "none"]
    /\ exc = [p \in Procs |-> NoExc]
    /\ retval = [p \in Procs |-> None]
    /\ result = [p \in Procs |-> NoResult]
    /\ stdout = [p \in Procs |-> <<>>]
    /\ calls = [p \in Procs |-> <<>>]
    /\ trace = [p \in Procs |-> <<>>]
    /\ dirs = {}
    /\ bmp = [d \in DirNames |-> "absent"]
    /\ owner = [d \in DirNames |-> 0]

\* one call, any arguments, any input content, any environment
Init ==
    /\ Fresh({1}, TRUE)
    /\ \E i \in InputPaths, o \in OutputArgs, k \in BOOLEAN, c \in Contents :
          /\ input_file = [p \in Procs |-> i]
          /\ output_file = [p \in Procs |-> o]
          /\ output_arg = [p \in Procs |-> o]
          /\ keep_temp_files = [p \in Procs |-> k]
          /\ files = IF c = "absent" THEN <<>> ELSE [f \in {i} |-> c]
    /\ potrace_installed \in BOOLEAN

Next == png_to_svg(1)

Spec == Init /\ [][Next]_vars

\* NumCalls calls of a decodable input running concurrently.  The calls are
\* interchangeable, so only one ordering of their keep_temp_files flags is
\* started from.
InitConc ==
    /\ Fresh(Procs, FALSE)
    /\ input_file = [p \in Procs |-> ArtPng]
    /\ output_file = [p \in Procs |-> None]
    /\ output_arg = [p \in Procs |-> None]
    /\ keep_temp_files \in {k \in [Procs -> BOOLEAN] :
                                \A p, q \in Procs : (p < q /\ k[p]) => k[q]}
    /\ files = [f \in {ArtPng} |-> "RGB"]
    /\ potrace_installed \in BOOLEAN

NextConc == \E p \in Procs : png_to_svg(p)

SpecConc == InitConc /\ [][NextConc]_vars

\* the default output path of every path of at most MaxLen characters
InitPath ==
    /\ Fresh({1}, TRUE)
    /\ \E i \in Strings(MaxLen), c \in {"absent", "L"} :
          /\ input_file = [p \in Procs |-> i]
          /\ files = IF c = "absent" THEN <<>> ELSE [f \in {i} |-> c]
    /\ output_file = [p \in Procs |-> None]
    /\ output_arg = [p \in Procs |-> None]
    /\ keep_temp_files = [p \in Procs |-> FALSE]
    /\ potrace_installed = TRUE

NextPath == Validate(1) \/ SetDefaultOutput(1)

SpecPath == InitPath /\ [][NextPath]_vars

----------------------------------------------------------------------------
(* Properties *)

Has(t, name) == \E i \in 1..Len(t) : t[i] = name

Done == pc[1] = "done"
Created == temp_dir[1] # NoDir
ScratchGone == temp_dir[1] \notin dirs /\ bmp[temp_dir[1]] = "absent"
CleanupFailed == Has(trace[1], "cleanup_except")
Warned == Has(stdout[1], "Warning: Could not clean up")
ToolFailed == Len(calls[1]) > 0 /\ calls[1][Len(calls[1])].returncode # 0

\* C1: a call whose input path does not exist never reaches mkdtemp (no scratch
\* directory exists at any point of the call, whatever output_file and
\* keep_temp_files are) and ends by raising FileNotFoundError.
C1_MissingInputNotFound ==
    input_file[1] \notin DOMAIN files =>
        /\ dirs = {}
        /\ ~Created
        /\ ~Has(trace[1], "mkdtemp") /\ ~Has(trace[1], "mkdtemp_failed")
        /\ pc[1] \in {"validate", "done"}
        /\ Done => result[1] = Raised(Exc("FileNotFoundError"))

C1_Witness ==
    /\ Done
    /\ input_file[1] \notin DOMAIN files
    /\ result[1].kind = "raise"
    /\ keep_temp_files[1]
    /\ output_arg[1] # None

\* C2 as stated: after any call without retention, returned or failed, the
\* scratch directory of the call is gone and no temp.bmp is left.
C2_Original ==
    (Done /\ ~keep_temp_files[1] /\ Created) => ScratchGone

\* C2 as amended: after any call without retention, returned or failed, the
\* scratch directory of the call is gone and no temp.bmp is left, unless
\* os.remove or os.rmdir itself failed; then the directory is still there and
\* the call has printed the clean-up warning.
C2_CleanedUnlessRemovalFails ==
    (Done /\ ~keep_temp_files[1] /\ Created) =>
        \/ ScratchGone /\ ~CleanupFailed /\ ~Warned
        \/ CleanupFailed /\ Warned /\ temp_dir[1] \in dirs

C2_Witness ==
    /\ Done
    /\ ~keep_temp_files[1]
    /\ Has(trace[1], "save") /\ Has(trace[1], "remove")
    /\ result[1].kind = "raise"
    /\ ScratchGone

\* C3 as stated: after any call with retention, success or failure, the
\* scratch directory the call created is present, temp.bmp exists in it, and
\* nothing was deleted.
C3_Original ==
    (Done /\ keep_temp_files[1] /\ Created) =>
        /\ temp_dir[1] \in dirs
        /\ bmp[temp_dir[1]] = "complete"
        /\ ~Has(trace[1], "remove") /\ ~Has(trace[1], "rmdir")

\* C3 as amended: after any call with retention that created its scratch
\* directory, the directory is still present and the call deleted nothing;
\* temp.bmp is in it, completely written, whenever img.save returned (so after
\* every successful call and after every failure of the tool), and is absent
\* when the call failed before img.save.
C3_RetainedWhatWasWritten ==
    (Done /\ keep_temp_files[1] /\ Created) =>
        /\ temp_dir[1] \in dirs
        /\ ~Has(trace[1], "exists") /\ ~Has(trace[1], "remove") /\ ~Has(trace[1], "rmdir")
        /\ Has(trace[1], "potrace") => bmp[temp_dir[1]] = "complete"
        /\ ~Has(trace[1], "save") => bmp[temp_dir[1]] = "absent"

C3_Witness ==
    /\ Done
    /\ keep_temp_files[1]
    /\ result[1].kind = "raise"
    /\ temp_dir[1] \in dirs
    /\ bmp[temp_dir[1]] = "complete"

\* C4 as stated: when the tool exits non-zero the call raises
\* CalledProcessError, the tool was run once, and without retention the scratch
\* directory and its bitmap have been removed when the error reaches the caller.
C4_Original ==
    (Done /\ ToolFailed) =>
        /\ result[1] = Raised(CalledProcessError(calls[1][1].returncode))
        /\ Len(calls[1]) = 1
        /\ ~keep_temp_files[1] => ScratchGone

\* C4 as amended: when the tool exits non-zero the call raises
\* CalledProcessError with the tool's exit status, the tool was run once, and
\* without retention the clean-up has run when the error reaches the caller:
\* the scratch directory and its bitmap are removed unless os.remove or
\* os.rmdir itself failed.
C4_ToolFailureIsFatal ==
    (Done /\ ToolFailed) =>
        /\ result[1] = Raised(CalledProcessError(calls[1][1].returncode))
        /\ Len(calls[1]) = 1
        /\ ~keep_temp_files[1] => (ScratchGone \/ (CleanupFailed /\ Warned))

C4_Witness ==
    /\ Done
    /\ ToolFailed
    /\ ~keep_temp_files[1]
    /\ ScratchGone
    /\ result[1].kind = "raise"

\* C5: when the tool is not installed the call raises an error of a kind other
\* than the FileNotFoundError of a missing input, carrying the tool's exit
\* status, and the scratch workspace is cleaned up absent retention.
C5_MissingToolIsToolError ==
    (Done /\ ~potrace_installed /\ Has(trace[1], "potrace")) =>
        /\ result[1].kind = "raise"
        /\ result[1].exc.type # "FileNotFoundError"
        /\ result[1].exc.returncode # -1
        /\ (~keep_temp_files[1] /\ ~CleanupFailed) => ScratchGone

\* C6: a failure of os.remove or os.rmdir never changes the outcome: a call
\* that executed `return` still returns the resolved output path, a call that
\* failed still raises its own fatal error, and the failure is only printed.
C6_CleanupFailureIsSwallowed ==
    (Done /\ CleanupFailed) =>
        /\ Warned
        /\ Has(trace[1], "return") => result[1] = Returned(output_file[1])
        /\ ~Has(trace[1], "return") =>
              /\ Has(trace[1], "except")
              /\ result[1].kind = "raise"
              /\ result[1].exc.type \in {"UnidentifiedImageError", "OSError",
                                         "FileNotFoundError", "CalledProcessError"}
              /\ ToolFailed => result[1].exc = CalledProcessError(calls[1][1].returncode)

C6_Witness ==
    /\ Done
    /\ CleanupFailed
    /\ result[1].kind = "return"
    /\ temp_dir[1] \in dirs

\* the last component of a path: what follows its last "/"
Basename(p) == SubSeq(p, RFind(p, "/") + 1, Len(p))

\* ext is a file extension of root \o ext: a dot followed by characters that
\* are neither dots nor separators, after a file name that is not all dots
IsExtension(root, ext) ==
    /\ Len(ext) >= 1
    /\ ext[1] = "."
    /\ \A i \in 2..Len(ext) : ext[i] \notin {".", "/"}
    /\ \E i \in 1..Len(Basename(root)) : Basename(root)[i] # "."

\* out is path with its extension, if it has one, replaced by ".svg"
ExtensionReplaced(path, out) ==
    LET Cuts == {k \in 0..Len(path) :
                    IsExtension(SubSeq(path, 1, k), SubSeq(path, k + 1, Len(path)))}
    IN IF Cuts = {} THEN out = path \o SVG
       ELSE \E k \in Cuts : out = SubSeq(path, 1, k) \o SVG

\* C7: a call that returns, returns the output_file it was given, or else the
\* input path with its extension replaced by ".svg"; and that path is the
\* --output argument of the one tool invocation.
C7_ReturnsResolvedPath ==
    (Done /\ result[1].kind = "return") =>
        /\ output_arg[1] # None => result[1].value = output_arg[1]
        /\ output_arg[1] = None => ExtensionReplaced(input_file[1], result[1].value)
        /\ Len(calls[1]) = 1
        /\ calls[1][1].output = result[1].value

C7_Witness ==
    /\ Done
    /\ result[1].kind = "return"
    /\ output_arg[1] = None
    /\ input_file[1] = ArtPng
    /\ result[1].value = <<"a">> \o SVG

\* the statements between mkdtemp returning and the last use of temp_dir
UsingScratch == {"open", "convert", "save", "potrace", "print_success", "return",
                 "except", "finally", "exists", "remove", "rmdir"}

\* C8: concurrent calls own distinct scratch directories: while a call can
\* still touch its directory, the directory exists, was created by that call
\* and is no other such call's; so the bitmap a call saved is still complete
\* when its tool invocation reads it, whatever the other calls clean up.
C8_ScratchIsPrivate ==
    /\ \A p \in Procs : pc[p] \in UsingScratch =>
          /\ temp_dir[p] \in dirs
          /\ owner[temp_dir[p]] = p
          /\ pc[p] = "potrace" => bmp[temp_dir[p]] = "complete"
    /\ \A p, q \in Procs :
          (p # q /\ pc[p] \in UsingScratch /\ pc[q] \in UsingScratch) =>
              temp_dir[p] # temp_dir[q]

C8_Witness ==
    \E p, q \in Procs :
        /\ p # q
        /\ pc[p] = "potrace"
        /\ pc[q] = "done"
        /\ ~keep_temp_files[q]
        /\ temp_dir[q] # NoDir
        /\ temp_dir[q] \notin dirs

\* the position of each step in the pipeline
Rank(step) ==
    CASE step = "validate" -> 1
      [] step = "default_output" -> 2
      [] step \in {"mkdtemp", "mkdtemp_failed"} -> 3
      [] step = "open" -> 4
      [] step = "convert" -> 5
      [] step = "save" -> 6
      [] step = "potrace" -> 7
      [] step = "print_success" -> 8
      [] step \in {"return", "except"} -> 9
      [] step = "finally" -> 10
      [] step = "exists" -> 11
      [] step = "remove" -> 12
      [] step = "rmdir" -> 13
      [] step = "cleanup_except" -> 14

\* C9: the steps of a call happen in pipeline order, each at most once; the
\* tool is invoked only once temp.bmp is completely written; the clean-up
\* starts only after the tool has exited or an earlier step failed; and the
\* output path is returned only after the clean-up has run.
C9_PipelineOrder ==
    /\ \A i, j \in 1..Len(trace[1]) : i < j => Rank(trace[1][i]) < Rank(trace[1][j])
    /\ pc[1] = "potrace" =>
          /\ Has(trace[1], "save")
          /\ bmp[temp_dir[1]] = "complete"
    /\ Has(trace[1], "finally") =>
          \/ Has(trace[1], "except")
          \/ Has(trace[1], "potrace") /\ Has(trace[1], "return")
    /\ result[1].kind = "return" =>
          /\ Has(trace[1], "potrace") /\ Has(trace[1], "finally")
          /\ ~keep_temp_files[1] => (Has(trace[1], "rmdir") \/ CleanupFailed)

C9_Witness ==
    /\ Done
    /\ result[1].kind = "return"
    /\ ~keep_temp_files[1]
    /\ Has(trace[1], "remove") /\ Has(trace[1], "rmdir")
    /\ ScratchGone

\* C10: when no output path is supplied, the derived output path differs from
\* the input path, so the tool is never told to overwrite its input.
C10_DefaultOutputIsNotInput ==
    (pc[1] = "mkdtemp" /\ output_arg[1] = None) => output_file[1] # input_file[1]

====
